---------------------------- MODULE Spec2Model ----------------------------
(***************************************************************************)
(* Model of the kkanaley/notebooks tutorials.  Each notebook is a          *)
(* sequential script of cells; a cell (or one iteration of a loop that     *)
(* awaits a remote call) is one action.  The notebooks are independent, so *)
(* each has its own specification over its own group of variables:         *)
(*   SpecNDVI      the NDVI notebook            (src/unnamed/part_001)     *)
(*   SpecARD       analysis-ready-data, case 1  (ard_2_use_case_1.ipynb)   *)
(*   SpecDataAPI   the Data API activation loop (src/unnamed/part_002)     *)
(*   SpecBasemaps  the basemaps quad download   (ard_2_use_case_1.ipynb)   *)
(*   SpecGroundTruth  ground truth and AOI map  (src/unnamed/part_000)     *)
(*   SpecOverlaps  scenes overlapping the AOIs  (src/unnamed/part_000)     *)
(*   SpecTools     tools and toolchains demos   (ard_2_use_case_1.ipynb)   *)
(***************************************************************************)
EXTENDS Integers, Sequences, FiniteSets, TLC

VARIABLES
    \* ---- NDVI notebook ----
    npc,            \* position in the notebook
    band_red,       \* src.read(3): uint16 raster, flattened
    band_nir,       \* src.read(4)
    ndvi,           \* float raster
    ndvi_range,     \* (np.nanmin(ndvi), np.nanmax(ndvi))
    hist_x,         \* histogram input x = ndvi[~np.isnan(ndvi)]
    src_meta,       \* metadata of the input GeoTIFF, as src.meta reports it
    kwargs,         \* the dict named kwargs
    dst_profile,    \* creation options output/ndvi.tif was opened with
    \* ---- analysis-ready-data notebook, use case 1 ----
    apc,                    \* position in the notebook
    error,                  \* the exception that stopped the script, if any
    item_list,              \* search results
    acquired_dates,
    unique_acquired_dates,
    ids_by_date,
    list_of_order_requests,
    order_limit,
    list_orders,
    api_orders,             \* Orders API: the requests it has received
    order_id_list,
    wait_tasks,             \* the awaitables of the wait cell's gather
    dl_tasks,               \* the awaitables of the download cell's gather
    downloaded,             \* order ids whose files are under data_dir
    locations,
    open_sessions,          \* Sessions entered by `async with` and not yet left
    \* ---- Data API notebook: asset activation ----
    dpc,                    \* position in the notebook
    remote_status,          \* Data API: the analytic asset's status now
    permitted,              \* Data API: the key may download the asset
    assets,                 \* res.json() of the latest assets request
    analytic_asset,         \* assets["analytic"], bound before the loop
    activation_code,        \* status code of the activation request
    asset_activated,
    asset_status,           \* the status printed and tested by the loop
    polls,                  \* lines the polling cell has printed
    \* ---- basemaps notebook: quad download ----
    qpc,                    \* position in the notebook
    qerror,                 \* the exception that stopped the script, if any
    api_url_bound,          \* the kernel has a name API_URL
    mosaic_quads,           \* Basemaps API: quads of the mosaic in its bbox
    page_size,              \* Basemaps API: quads per response page
    items,                  \* quads['items'] of the quads response
    saved,                  \* names of the files written
    \* ---- crop classification notebook: ground truth and AOI map ----
    gpc,                    \* position in the notebook
    survey_data,            \* the features of the survey shapefile
    loaded_features,        \* the list load_ground_truth returned
    features,               \* the list named features, as it is now
    total_unique_classes,
    label,                  \* label.value
    aois,
    boxes,                  \* the boxes on the map, oldest first
    draw_events,            \* the calls of handle_draw so far
    draw_error,             \* the exception the latest handle_draw raised
    ground_truth_file,      \* content of ground-truth.geojson
    \* ---- crop classification notebook: imagery availability ----
    opc,                    \* position in the notebook
    oerror,                 \* the exception that stopped the script, if any
    test_result_list,       \* search results for aoi_test
    train_result_list,      \* search results for aoi_train
    scenes_test,
    scenes_train,
    printed,                \* the numbers the overlaps cell has printed
    \* ---- tools and toolchains notebook ----
    tdemo,                  \* the demo the script is at (index into Demos)
    tstep,                  \* position within the demo
    terror,                 \* the exception that stopped the script, if any
    cached_files,           \* demos whose cached output file is on disk
    names_bound,            \* the kernel has the names downloaded_*_files
    run_flags,              \* demos whose run_<demo> flag is True
    image_path,             \* per demo: img_file, clip_img_file, ..., tile_files
    download,               \* the value bound to the name download
    tool_api,               \* Orders API: the requests it has received
    wait_log,               \* calls of cl.wait: order id and outcome
    download_log,           \* order ids download_order was called with
    tool_sessions           \* Sessions entered and not yet left

ndviVars == <<npc, band_red, band_nir, ndvi, ndvi_range, hist_x, src_meta,
              kwargs, dst_profile>>

ardVars == <<apc, error, item_list, acquired_dates, unique_acquired_dates,
             ids_by_date, list_of_order_requests, order_limit, list_orders,
             api_orders, order_id_list, wait_tasks, dl_tasks, downloaded,
             locations, open_sessions>>

dataVars == <<dpc, remote_status, permitted, assets, analytic_asset,
              activation_code, asset_activated, asset_status, polls>>

quadVars == <<qpc, qerror, api_url_bound, mosaic_quads, page_size, items, saved>>

gtVars == <<gpc, survey_data, loaded_features, features, total_unique_classes,
            label, aois, boxes, draw_events, draw_error, ground_truth_file>>

ovVars == <<opc, oerror, test_result_list, train_result_list, scenes_test,
            scenes_train, printed>>

toolVars == <<tdemo, tstep, terror, cached_files, names_bound, run_flags,
              image_path, download, tool_api, wait_log, download_log,
              tool_sessions>>

vars == <<ndviVars, ardVars, dataVars, quadVars, gtVars, ovVars, toolVars>>

otherThanNDVI == <<ardVars, dataVars, quadVars, gtVars, ovVars, toolVars>>
otherThanARD == <<ndviVars, dataVars, quadVars, gtVars, ovVars, toolVars>>
otherThanDataAPI == <<ndviVars, ardVars, quadVars, gtVars, ovVars, toolVars>>
otherThanBasemaps == <<ndviVars, ardVars, dataVars, gtVars, ovVars, toolVars>>
otherThanGroundTruth == <<ndviVars, ardVars, dataVars, quadVars, ovVars, toolVars>>
otherThanOverlaps == <<ndviVars, ardVars, dataVars, quadVars, gtVars, toolVars>>
otherThanTools == <<ndviVars, ardVars, dataVars, quadVars, gtVars, ovVars>>

----------------------------------------------------------------------------
(* Helpers                                                                 *)

Range(s) == {s[i] : i \in DOMAIN s}

SeqsUpTo(S, n) == UNION {[1..k -> S] : k \in 0..n}

----------------------------------------------------------------------------
(* NDVI notebook: float and uint16 arithmetic                               *)

\* Width of the raster's integer type (PlanetScope AnalyticMS_SR is uint16).
UINT16_MOD == 65536

\* Number of pixels of the modelled raster.
NumPixels == 2

\* Band values the rasters are drawn from: both ends of the uint16 range,
\* the midpoint, and values whose sums do and do not exceed 65535.
PixelSamples == {0, 1, 30000, 32768, 40000, 65535}

NaN == [kind |-> "nan", num |-> 0, den |-> 1]
PosInf == [kind |-> "inf", num |-> 1, den |-> 1]
NegInf == [kind |-> "ninf", num |-> -1, den |-> 1]

RECURSIVE GCD(_, _)
GCD(a, b) == IF b = 0 THEN a ELSE GCD(b, a % b)

Abs(x) == IF x < 0 THEN -x ELSE x

\* A finite float holding the quotient num/den (den > 0), in lowest terms.
Quot(num, den) ==
    LET g == GCD(Abs(num), den)
    IN  [kind |-> "fin", num |-> num \div g, den |-> den \div g]

\* numpy float division under np.seterr(divide='ignore', invalid='ignore'):
\* x/0 is +-inf, 0/0 is NaN, nothing is raised.
FloatDiv(num, den) ==
    IF den = 0
    THEN IF num = 0 THEN NaN ELSE IF num > 0 THEN PosInf ELSE NegInf
    ELSE Quot(num, den)

\* band_nir + band_red: both operands are uint16 arrays, so is the sum.
Uint16Add(a, b) == (a + b) % UINT16_MOD

\* One pixel of
\*   (band_nir.astype(float) - band_red.astype(float)) / (band_nir + band_red)
NdviPixel(nir, red) == FloatDiv(nir - red, Uint16Add(nir, red))

IsNaN(v) == v.kind = "nan"
IsFinite(v) == v.kind = "fin"

\* a/b < c/d for b, d > 0, by continued fractions (no product is formed).
RECURSIVE RatLess(_, _, _, _)
RatLess(a, b, c, d) ==
    LET qa == a \div b
        qc == c \div d
        ra == a % b
        rc == c % d
    IN  IF qa # qc THEN qa < qc
        ELSE IF rc = 0 THEN FALSE
        ELSE IF ra = 0 THEN TRUE
        ELSE RatLess(d, rc, b, ra)

\* v < w on non-NaN floats.
FloatLess(v, w) ==
    CASE v.kind = "ninf" -> w.kind # "ninf"
      [] v.kind = "inf"  -> FALSE
      [] OTHER -> CASE w.kind = "inf"  -> TRUE
                    [] w.kind = "ninf" -> FALSE
                    [] OTHER -> RatLess(v.num, v.den, w.num, w.den)

\* The indices np.nanmin / np.nanmax look at.
NanSkip(a) == {i \in DOMAIN a : ~IsNaN(a[i])}

\* np.nanmin(a): NaN (with a warning) when every element is NaN.
NanMin(a) ==
    IF NanSkip(a) = {} THEN NaN
    ELSE LET i == CHOOSE i \in NanSkip(a) :
                      \A j \in NanSkip(a) : ~FloatLess(a[j], a[i])
         IN  a[i]

NanMax(a) ==
    IF NanSkip(a) = {} THEN NaN
    ELSE LET i == CHOOSE i \in NanSkip(a) :
                      \A j \in NanSkip(a) : ~FloatLess(a[i], a[j])
         IN  a[i]

\* a[mask] for a boolean mask: the selected elements, in order.
RECURSIVE BoolIndex(_, _)
BoolIndex(a, mask) ==
    IF a = <<>> THEN <<>>
    ELSE (IF Head(mask) THEN <<Head(a)>> ELSE <<>>)
         \o BoolIndex(Tail(a), Tail(mask))

----------------------------------------------------------------------------
(* NDVI notebook: cells                                                     *)

StartNDVI ==
    /\ npc = "read"
    /\ band_red = <<>>
    /\ band_nir = <<>>
    /\ ndvi = <<>>
    /\ ndvi_range = <<>>
    /\ hist_x = <<>>
    /\ src_meta = <<>>
    /\ kwargs = <<>>
    /\ dst_profile = <<>>

\* The metadata a four-band PlanetScope GeoTIFF can carry: the nodata value
\* is set or absent; the other keys are those of the file read above.
MetaSamples ==
    {[driver |-> "GTiff", dtype |-> "uint16", nodata |-> nd, width |-> NumPixels,
      height |-> 1, count |-> 4, crs |-> "EPSG:32610", transform |-> "affine"] :
        nd \in {"None", "0"}}

\* (variant of dict.update: the dict is replaced by the keyword arguments)
DictReplace(d, u) == u

\* d.update(**u): the keys of u are set, every other key of d is kept.
DictUpdate(d, u) ==
    [k \in DOMAIN d \cup DOMAIN u |-> IF k \in DOMAIN u THEN u[k] ELSE d[k]]

\* Step 2: load the red and NIR bands of the GeoTIFF.
ReadBands ==
    /\ npc = "read"
    /\ \E r \in [1..NumPixels -> PixelSamples], n \in [1..NumPixels -> PixelSamples] :
          /\ band_red' = r
          /\ band_nir' = n
    /\ src_meta' \in MetaSamples
    /\ npc' = "calc"
    /\ UNCHANGED <<ndvi, ndvi_range, hist_x, kwargs, dst_profile>>
    /\ UNCHANGED otherThanNDVI

\* Step 3: ndvi = (nir - red) / (nir + red), elementwise.
ComputeNDVI ==
    /\ npc = "calc"
    /\ ndvi' = [i \in DOMAIN band_nir |-> NdviPixel(band_nir[i], band_red[i])]
    /\ npc' = "range"
    /\ UNCHANGED <<band_red, band_nir, ndvi_range, hist_x,
                   src_meta, kwargs, dst_profile>>
    /\ UNCHANGED otherThanNDVI

\* np.nanmin(ndvi), np.nanmax(ndvi)
CheckRange ==
    /\ npc = "range"
    /\ ndvi_range' = <<NanMin(ndvi), NanMax(ndvi)>>
    /\ npc' = "save"
    /\ UNCHANGED <<band_red, band_nir, ndvi, hist_x,
                   src_meta, kwargs, dst_profile>>
    /\ UNCHANGED otherThanNDVI

\* Step 5: kwargs = src.meta (a dict built by the call);
\* kwargs.update(dtype=rasterio.float32, count=1);
\* rasterio.open('output/ndvi.tif', 'w', **kwargs) and dst.write_band(1, ...).
\* The pixel values written, ndvi cast to float32, are not tracked.
SaveNDVI ==
    /\ npc = "save"
    /\ kwargs' = DictUpdate(src_meta, [dtype |-> "float32", count |-> 1])
    /\ dst_profile' = kwargs'
    /\ npc' = "hist"
    /\ UNCHANGED <<band_red, band_nir, ndvi, ndvi_range, hist_x, src_meta>>
    /\ UNCHANGED otherThanNDVI

\* Step 7: x = ndvi[~np.isnan(ndvi)]; ax.hist(x, numBins, ...)
Histogram ==
    /\ npc = "hist"
    /\ hist_x' = BoolIndex(ndvi, [i \in DOMAIN ndvi |-> ~IsNaN(ndvi[i])])
    /\ npc' = "done"
    /\ UNCHANGED <<band_red, band_nir, ndvi, ndvi_range,
                   src_meta, kwargs, dst_profile>>
    /\ UNCHANGED otherThanNDVI

NextNDVI == ReadBands \/ ComputeNDVI \/ CheckRange \/ SaveNDVI \/ Histogram

----------------------------------------------------------------------------
(* analysis-ready-data notebook: data                                       *)

\* Largest number of scenes a search returns.
MaxItems == 3

\* Largest value the reader sets order_limit to ("Feel free to increase
\* this limit if you want!"); the notebook's own value is 2.
MaxOrderLimit == 3

\* 'acquired' timestamps, as character sequences <date> 'T' <time>.
AcquiredSamples ==
    { <<"1", "T", "a">>, <<"1", "T", "b">>, <<"2", "T", "a">>, <<"3", "T", "b">> }

\* The id of the k-th scene of a search result (ids are unique).
ItemId(k) == 100 + k

\* The id the Orders API gives to the k-th order it creates.
OrderId(k) == 200 + k

NoError == [cell |-> "", exc |-> ""]

Raised(cell, exc) == [cell |-> cell, exc |-> exc]

Min(a, b) == IF a < b THEN a ELSE b

\* s.split(sep)[0]: the characters before the first sep, all of s without one.
RECURSIVE SplitFirst(_, _)
SplitFirst(s, sep) ==
    IF s = <<>> \/ Head(s) = sep THEN <<>>
    ELSE <<Head(s)>> \o SplitFirst(Tail(s), sep)

\* def get_acquired_date(item)
get_acquired_date(item) == SplitFirst(item.acquired, "T")

\* [f(x) for x in s if p(x)] building blocks
RECURSIVE SelectIds(_, _)
SelectIds(scenes, date) ==
    IF scenes = <<>> THEN <<>>
    ELSE (IF get_acquired_date(Head(scenes)) = date
          THEN <<Head(scenes).id>> ELSE <<>>)
         \o SelectIds(Tail(scenes), date)

\* Variant of get_date_item_ids without the date test.
get_date_item_ids_all(date, all_items) ==
    [k \in DOMAIN all_items |-> all_items[k].id]

\* def get_date_item_ids(date, all_items)
get_date_item_ids(date, all_items) == SelectIds(all_items, date)

\* def get_ids_by_date(scenes)
get_ids_by_date(scenes) ==
    LET dates == [k \in DOMAIN scenes |-> get_acquired_date(scenes[k])]
        unique == Range(dates)
    IN  [d \in unique |-> get_date_item_ids(d, scenes)]

\* Variant of build_order_request that orders the first scene only.
build_order_request_first(ids) ==
    [item_ids |-> IF ids = <<>> THEN <<>> ELSE <<Head(ids)>>,
     tools |-> <<"clip", "bandmath", "composite">>]

\* def build_order_request(ids): one product holding ids, with the
\* clip / bandmath / composite toolchain.
build_order_request(ids) ==
    [item_ids |-> ids, tools |-> <<"clip", "bandmath", "composite">>]

\* list(a_set): the elements in some order.
ListsOf(S) ==
    {l \in [1..Cardinality(S) -> S] : Range(l) = S}

\* Variant of s[:n] that ignores n.
SliceToAll(s, n) == s

\* s[:n]
SliceTo(s, n) == SubSeq(s, 1, Min(n, Len(s)))

\* (variant: a gather over the first three order ids)
GatherArgsThree == <<1, 2, 3>>

\* The order ids the wait cell and the download cell hand to asyncio.gather:
\* order_id_list[0] and order_id_list[1].
GatherArgs == <<1, 2>>

\* asyncio.gather(...) raises as soon as one awaitable has raised, and
\* returns once all have returned.
GatherRaised(tasks) == \E i \in DOMAIN tasks : tasks[i].st = "raised"
\* (variant: returns once any awaitable has returned)
GatherReturnedAny(tasks) == \E i \in DOMAIN tasks : tasks[i].st = "returned"
GatherReturned(tasks) == \A i \in DOMAIN tasks : tasks[i].st = "returned"

\* manifest['files'] of a downloaded order: the composite and its UDM2.
ManifestFiles(order_id) == <<"composite.tif", "composite_udm2.tif">>

StartARD ==
    /\ apc = "search"
    /\ error = NoError
    /\ item_list = <<>>
    /\ acquired_dates = <<>>
    /\ unique_acquired_dates = {}
    /\ ids_by_date = <<>>
    /\ list_of_order_requests = <<>>
    /\ order_limit = 0
    /\ list_orders = <<>>
    /\ api_orders = <<>>
    /\ order_id_list = <<>>
    /\ wait_tasks = <<>>
    /\ dl_tasks = <<>>
    /\ downloaded = {}
    /\ locations = <<>>
    /\ open_sessions = 0

----------------------------------------------------------------------------
(* analysis-ready-data notebook: cells                                      *)

\* (variant: the exception is recorded and the cell is run again)
FailRetried(cell, exc) ==
    /\ apc' = cell
    /\ error' = Raised(cell, exc)

\* An exception nothing catches ends the cell and the run.
Fail(cell, exc) ==
    /\ apc' = "failed"
    /\ error' = Raised(cell, exc)

\* Step 2: item_list = [i async for i in items]
Search ==
    /\ apc = "search"
    /\ \E a \in SeqsUpTo(AcquiredSamples, MaxItems) :
          item_list' = [k \in DOMAIN a |-> [id |-> ItemId(k), acquired |-> a[k]]]
    /\ apc' = "peek"
    /\ UNCHANGED <<error, acquired_dates, unique_acquired_dates, ids_by_date,
                   list_of_order_requests, order_limit, list_orders, api_orders,
                   order_id_list, wait_tasks, dl_tasks, downloaded, locations,
                   open_sessions>>
    /\ UNCHANGED otherThanARD

\* print(item_list[0]); item = item_list[0]
PeekItem ==
    /\ apc = "peek"
    /\ IF item_list = <<>>
       THEN Fail("peek", "IndexError")
       ELSE apc' = "dates" /\ UNCHANGED error
    /\ UNCHANGED <<item_list, acquired_dates, unique_acquired_dates, ids_by_date,
                   list_of_order_requests, order_limit, list_orders, api_orders,
                   order_id_list, wait_tasks, dl_tasks, downloaded, locations,
                   open_sessions>>
    /\ UNCHANGED otherThanARD

\* acquired_dates = [get_acquired_date(item) for item in item_list]
AcquiredDates ==
    /\ apc = "dates"
    /\ acquired_dates' = [k \in DOMAIN item_list |-> get_acquired_date(item_list[k])]
    /\ apc' = "unique"
    /\ UNCHANGED <<error, item_list, unique_acquired_dates, ids_by_date,
                   list_of_order_requests, order_limit, list_orders, api_orders,
                   order_id_list, wait_tasks, dl_tasks, downloaded, locations,
                   open_sessions>>
    /\ UNCHANGED otherThanARD

\* unique_acquired_dates = set(acquired_dates)
UniqueDates ==
    /\ apc = "unique"
    /\ unique_acquired_dates' = Range(acquired_dates)
    /\ apc' = "group"
    /\ UNCHANGED <<error, item_list, acquired_dates, ids_by_date,
                   list_of_order_requests, order_limit, list_orders, api_orders,
                   order_id_list, wait_tasks, dl_tasks, downloaded, locations,
                   open_sessions>>
    /\ UNCHANGED otherThanARD

\* ids_by_date = get_ids_by_date(item_list)
GroupIds ==
    /\ apc = "group"
    /\ ids_by_date' = get_ids_by_date(item_list)
    /\ apc' = "requests"
    /\ UNCHANGED <<error, item_list, acquired_dates, unique_acquired_dates,
                   list_of_order_requests, order_limit, list_orders, api_orders,
                   order_id_list, wait_tasks, dl_tasks, downloaded, locations,
                   open_sessions>>
    /\ UNCHANGED otherThanARD

\* for date in list(unique_acquired_dates):
\*     ids = ids_by_date[date]
\*     list_of_order_requests.append(build_order_request(ids))
BuildRequests ==
    /\ apc = "requests"
    /\ \E dates \in ListsOf(unique_acquired_dates) :
          IF \E k \in DOMAIN dates : dates[k] \notin DOMAIN ids_by_date
          THEN /\ Fail("requests", "KeyError")
               /\ LET bad == CHOOSE k \in DOMAIN dates :
                               /\ dates[k] \notin DOMAIN ids_by_date
                               /\ \A j \in 1..(k-1) : dates[j] \in DOMAIN ids_by_date
                  IN  list_of_order_requests' =
                          [k \in 1..(bad-1) |-> build_order_request(ids_by_date[dates[k]])]
          ELSE /\ list_of_order_requests' =
                      [k \in DOMAIN dates |-> build_order_request(ids_by_date[dates[k]])]
               /\ apc' = "limit"
               /\ UNCHANGED error
    /\ UNCHANGED <<item_list, acquired_dates, unique_acquired_dates, ids_by_date,
                   order_limit, list_orders, api_orders,
                   order_id_list, wait_tasks, dl_tasks, downloaded, locations,
                   open_sessions>>
    /\ UNCHANGED otherThanARD

\* order_limit = 2; list_orders = []
SetOrderLimit ==
    /\ apc = "limit"
    /\ \E l \in 2..MaxOrderLimit : order_limit' = l
    /\ list_orders' = <<>>
    /\ apc' = "submit"
    /\ UNCHANGED <<error, item_list, acquired_dates, unique_acquired_dates,
                   ids_by_date, list_of_order_requests, api_orders,
                   order_id_list, wait_tasks, dl_tasks, downloaded, locations,
                   open_sessions>>
    /\ UNCHANGED otherThanARD

\* The requests the submission loop iterates over.
SubmitQueue == SliceTo(list_of_order_requests, order_limit)

\* One iteration starts: async with Session() as sess: the session is entered
\* and cl.create_order(order_request) sends the request and awaits the answer.
SubmitOrderStart ==
    /\ apc = "submit"
    /\ Len(list_orders) < Len(SubmitQueue)
    /\ open_sessions' = open_sessions + 1
    /\ api_orders' = Append(api_orders, SubmitQueue[Len(list_orders) + 1])
    /\ apc' = "creating"
    /\ UNCHANGED <<error, item_list, acquired_dates, unique_acquired_dates,
                   ids_by_date, list_of_order_requests, order_limit, list_orders,
                   order_id_list, wait_tasks, dl_tasks, downloaded, locations>>
    /\ UNCHANGED otherThanARD

\* create_order returns: the `async with` block is left, then
\* list_orders.append(order).
SubmitOrderReturns ==
    /\ apc = "creating"
    /\ open_sessions' = open_sessions - 1
    /\ list_orders' = Append(list_orders,
           [id |-> OrderId(Len(list_orders) + 1),
            request |-> api_orders[Len(api_orders)]])
    /\ apc' = "submit"
    /\ UNCHANGED <<error, item_list, acquired_dates, unique_acquired_dates,
                   ids_by_date, list_of_order_requests, order_limit, api_orders,
                   order_id_list, wait_tasks, dl_tasks, downloaded, locations>>
    /\ UNCHANGED otherThanARD

\* create_order raises: the `async with` block is left by the exception and
\* nothing catches it.
SubmitOrderRaises ==
    /\ apc = "creating"
    /\ open_sessions' = open_sessions - 1
    /\ Fail("submit", "ClientError")
    /\ UNCHANGED <<item_list, acquired_dates, unique_acquired_dates,
                   ids_by_date, list_of_order_requests, order_limit, list_orders,
                   api_orders, order_id_list, wait_tasks, dl_tasks, downloaded,
                   locations>>
    /\ UNCHANGED otherThanARD

\* The loop is exhausted.
SubmitDone ==
    /\ apc = "submit"
    /\ Len(list_orders) = Len(SubmitQueue)
    /\ apc' = "ids"
    /\ UNCHANGED <<error, item_list, acquired_dates, unique_acquired_dates,
                   ids_by_date, list_of_order_requests, order_limit, list_orders,
                   api_orders, order_id_list, wait_tasks, dl_tasks, downloaded,
                   locations, open_sessions>>
    /\ UNCHANGED otherThanARD

\* order_id_list = [order["id"] for order in list_orders]
OrderIds ==
    /\ apc = "ids"
    /\ order_id_list' = [k \in DOMAIN list_orders |-> list_orders[k].id]
    /\ apc' = "wait"
    /\ UNCHANGED <<error, item_list, acquired_dates, unique_acquired_dates,
                   ids_by_date, list_of_order_requests, order_limit, list_orders,
                   api_orders, wait_tasks, dl_tasks, downloaded, locations,
                   open_sessions>>
    /\ UNCHANGED otherThanARD

\* The arguments of a gather cell: order_id_list[0] and order_id_list[1] are
\* evaluated before anything is awaited.
GatherTasks(ids) ==
    [i \in DOMAIN GatherArgs |-> [id |-> ids[GatherArgs[i]], st |-> "running"]]

ArgsInRange(ids) == \A i \in DOMAIN GatherArgs : GatherArgs[i] \in DOMAIN ids

\* await asyncio.gather(client.wait(order_id_list[0]), client.wait(order_id_list[1]))
WaitStart ==
    /\ apc = "wait"
    /\ IF ArgsInRange(order_id_list)
       THEN /\ wait_tasks' = GatherTasks(order_id_list)
            /\ apc' = "waiting"
            /\ open_sessions' = open_sessions + 1
            /\ UNCHANGED error
       ELSE /\ Fail("wait", "IndexError")
            /\ UNCHANGED <<wait_tasks, open_sessions>>
    /\ UNCHANGED <<item_list, acquired_dates, unique_acquired_dates,
                   ids_by_date, list_of_order_requests, order_limit, list_orders,
                   api_orders, order_id_list, dl_tasks, downloaded, locations>>
    /\ UNCHANGED otherThanARD

\* client.wait(id) returns: the order reached a downloadable state.
WaitTaskReturns(i) ==
    /\ apc = "waiting"
    /\ wait_tasks[i].st = "running"
    /\ wait_tasks' = [wait_tasks EXCEPT ![i].st = "returned"]
    /\ UNCHANGED <<apc, error, item_list, acquired_dates, unique_acquired_dates,
                   ids_by_date, list_of_order_requests, order_limit, list_orders,
                   api_orders, order_id_list, dl_tasks, downloaded, locations,
                   open_sessions>>
    /\ UNCHANGED otherThanARD

\* client.wait(id) raises: the order failed, or polling gave up.
WaitTaskRaises(i) ==
    /\ apc = "waiting"
    /\ wait_tasks[i].st = "running"
    /\ wait_tasks' = [wait_tasks EXCEPT ![i].st = "raised"]
    /\ UNCHANGED <<apc, error, item_list, acquired_dates, unique_acquired_dates,
                   ids_by_date, list_of_order_requests, order_limit, list_orders,
                   api_orders, order_id_list, dl_tasks, downloaded, locations,
                   open_sessions>>
    /\ UNCHANGED otherThanARD

\* The wait cell's gather returns.
WaitDone ==
    /\ apc = "waiting"
    /\ GatherReturned(wait_tasks)
    /\ apc' = "download"
    /\ open_sessions' = open_sessions - 1
    /\ UNCHANGED <<error, item_list, acquired_dates, unique_acquired_dates,
                   ids_by_date, list_of_order_requests, order_limit, list_orders,
                   api_orders, order_id_list, wait_tasks, dl_tasks, downloaded,
                   locations>>
    /\ UNCHANGED otherThanARD

\* The wait cell's gather raises.
WaitRaises ==
    /\ apc = "waiting"
    /\ GatherRaised(wait_tasks)
    /\ Fail("wait", "ClientError")
    /\ open_sessions' = open_sessions - 1
    /\ UNCHANGED <<item_list, acquired_dates, unique_acquired_dates,
                   ids_by_date, list_of_order_requests, order_limit, list_orders,
                   api_orders, order_id_list, wait_tasks, dl_tasks, downloaded,
                   locations>>
    /\ UNCHANGED otherThanARD

\* await asyncio.gather(client.download_order(order_id_list[0], ...),
\*                      client.download_order(order_id_list[1], ...))
DownloadStart ==
    /\ apc = "download"
    /\ IF ArgsInRange(order_id_list)
       THEN /\ dl_tasks' = GatherTasks(order_id_list)
            /\ apc' = "downloading"
            /\ open_sessions' = open_sessions + 1
            /\ UNCHANGED error
       ELSE /\ Fail("download", "IndexError")
            /\ UNCHANGED <<dl_tasks, open_sessions>>
    /\ UNCHANGED <<item_list, acquired_dates, unique_acquired_dates,
                   ids_by_date, list_of_order_requests, order_limit, list_orders,
                   api_orders, order_id_list, wait_tasks, downloaded, locations>>
    /\ UNCHANGED otherThanARD

\* client.download_order(id, data_dir) returns: data_dir/<id>/ holds the
\* order's files and its manifest.json.
DownloadTaskReturns(i) ==
    /\ apc = "downloading"
    /\ dl_tasks[i].st = "running"
    /\ dl_tasks' = [dl_tasks EXCEPT ![i].st = "returned"]
    /\ downloaded' = downloaded \cup {dl_tasks[i].id}
    /\ UNCHANGED <<apc, error, item_list, acquired_dates, unique_acquired_dates,
                   ids_by_date, list_of_order_requests, order_limit, list_orders,
                   api_orders, order_id_list, wait_tasks, locations,
                   open_sessions>>
    /\ UNCHANGED otherThanARD

\* client.download_order(id, data_dir) raises.
DownloadTaskRaises(i) ==
    /\ apc = "downloading"
    /\ dl_tasks[i].st = "running"
    /\ dl_tasks' = [dl_tasks EXCEPT ![i].st = "raised"]
    /\ UNCHANGED <<apc, error, item_list, acquired_dates, unique_acquired_dates,
                   ids_by_date, list_of_order_requests, order_limit, list_orders,
                   api_orders, order_id_list, wait_tasks, downloaded, locations,
                   open_sessions>>
    /\ UNCHANGED otherThanARD

\* The download cell's gather returns.
DownloadDone ==
    /\ apc = "downloading"
    /\ GatherReturned(dl_tasks)
    /\ apc' = "locations"
    /\ open_sessions' = open_sessions - 1
    /\ UNCHANGED <<error, item_list, acquired_dates, unique_acquired_dates,
                   ids_by_date, list_of_order_requests, order_limit, list_orders,
                   api_orders, order_id_list, wait_tasks, dl_tasks, downloaded,
                   locations>>
    /\ UNCHANGED otherThanARD

\* The download cell's gather raises.
DownloadRaises ==
    /\ apc = "downloading"
    /\ GatherRaised(dl_tasks)
    /\ Fail("download", "ClientError")
    /\ open_sessions' = open_sessions - 1
    /\ UNCHANGED <<item_list, acquired_dates, unique_acquired_dates,
                   ids_by_date, list_of_order_requests, order_limit, list_orders,
                   api_orders, order_id_list, wait_tasks, dl_tasks, downloaded,
                   locations>>
    /\ UNCHANGED otherThanARD

\* [os.path.join(data_dir, order_id, f['path']) for f in manifest['files']]
OrderLocations(order_id) ==
    [k \in DOMAIN ManifestFiles(order_id) |->
        <<"data/use_case_1", order_id, ManifestFiles(order_id)[k]>>]

RECURSIVE Chain(_)
Chain(ls) == IF ls = <<>> THEN <<>> ELSE Head(ls) \o Chain(Tail(ls))

\* def get_download_locations(download_dir, order_id_list): opens
\* <download_dir>/<order_id>/manifest.json for every id of order_id_list.
\* locations = list(chain.from_iterable(get_download_locations(...)))
GetDownloadLocations ==
    /\ apc = "locations"
    /\ IF \A k \in DOMAIN order_id_list : order_id_list[k] \in downloaded
       THEN /\ locations' = Chain([k \in DOMAIN order_id_list |->
                                      OrderLocations(order_id_list[k])])
            /\ apc' = "done"
            /\ UNCHANGED error
       ELSE /\ LET bad == CHOOSE k \in DOMAIN order_id_list :
                            /\ order_id_list[k] \notin downloaded
                            /\ \A j \in 1..(k-1) : order_id_list[j] \in downloaded
               IN  locations' = [k \in 1..(bad-1) |-> OrderLocations(order_id_list[k])]
            /\ Fail("locations", "FileNotFoundError")
    /\ UNCHANGED <<item_list, acquired_dates, unique_acquired_dates,
                   ids_by_date, list_of_order_requests, order_limit, list_orders,
                   api_orders, order_id_list, wait_tasks, dl_tasks, downloaded,
                   open_sessions>>
    /\ UNCHANGED otherThanARD

NextARD ==
    \/ Search \/ PeekItem \/ AcquiredDates \/ UniqueDates \/ GroupIds
    \/ BuildRequests \/ SetOrderLimit
    \/ SubmitOrderStart \/ SubmitOrderReturns \/ SubmitOrderRaises
    \/ SubmitDone \/ OrderIds
    \/ WaitStart
    \/ (\E i \in DOMAIN wait_tasks : WaitTaskReturns(i))
    \/ (\E i \in DOMAIN wait_tasks : WaitTaskRaises(i))
    \/ WaitDone \/ WaitRaises
    \/ DownloadStart
    \/ (\E i \in DOMAIN dl_tasks : DownloadTaskReturns(i))
    \/ (\E i \in DOMAIN dl_tasks : DownloadTaskRaises(i))
    \/ DownloadDone \/ DownloadRaises
    \/ GetDownloadLocations

----------------------------------------------------------------------------
(* Data API notebook: activating and polling the analytic asset             *)

\* The polling cell's printed lines are counted up to this many.
MaxPolls == 3

AssetStatuses == {"inactive", "activating", "active"}

\* The notebook has not been run.
IdleDataAPI ==
    /\ dpc = "assets"
    /\ remote_status = "inactive"
    /\ permitted = TRUE
    /\ assets = <<>>
    /\ analytic_asset = <<>>
    /\ activation_code = 0
    /\ asset_activated = FALSE
    /\ asset_status = ""
    /\ polls = 0

StartDataAPI ==
    /\ dpc = "assets"
    /\ remote_status \in AssetStatuses
    /\ permitted \in BOOLEAN
    /\ assets = <<>>
    /\ analytic_asset = <<>>
    /\ activation_code = 0
    /\ asset_activated = FALSE
    /\ asset_status = ""
    /\ polls = 0

\* The body of a response of the item's assets url.
AssetsResponse == [analytic |-> [status |-> remote_status]]

\* res = session.get(assets_url); assets = res.json()
GetAssets ==
    /\ dpc = "assets"
    /\ assets' = AssetsResponse
    /\ dpc' = "analytic"
    /\ UNCHANGED <<remote_status, permitted, analytic_asset, activation_code,
                   asset_activated, asset_status, polls>>
    /\ UNCHANGED otherThanDataAPI

\* analytic_asset = assets["analytic"]
BindAnalyticAsset ==
    /\ dpc = "analytic"
    /\ analytic_asset' = assets["analytic"]
    /\ dpc' = "activate"
    /\ UNCHANGED <<remote_status, permitted, assets, activation_code,
                   asset_activated, asset_status, polls>>
    /\ UNCHANGED otherThanDataAPI

\* res = session.get(activation_url): 202 accepted, 204 already active,
\* 401 no permission.
Activate ==
    /\ dpc = "activate"
    /\ IF ~permitted
       THEN activation_code' = 401 /\ UNCHANGED remote_status
       ELSE IF remote_status = "active"
       THEN activation_code' = 204 /\ UNCHANGED remote_status
       ELSE activation_code' = 202 /\ remote_status' = "activating"
    /\ dpc' = "poll"
    /\ UNCHANGED <<permitted, assets, analytic_asset, asset_activated,
                   asset_status, polls>>
    /\ UNCHANGED otherThanDataAPI

\* The Data API finishes the activation.
RemoteActivates ==
    /\ remote_status = "activating"
    /\ remote_status' = "active"
    /\ UNCHANGED <<dpc, permitted, assets, analytic_asset, activation_code,
                   asset_activated, asset_status, polls>>
    /\ UNCHANGED otherThanDataAPI

\* while asset_activated == False:
\*     res = session.get(assets_url); assets = res.json()
\*     asset_status = analytic_asset["status"]; print(asset_status)
\*     time.sleep(15)
PollFetch ==
    /\ dpc = "poll"
    /\ asset_activated = FALSE
    /\ assets' = AssetsResponse
    /\ asset_status' = analytic_asset["status"]
    /\ polls' = Min(polls + 1, MaxPolls)
    /\ dpc' = "sleep"
    /\ UNCHANGED <<remote_status, permitted, analytic_asset, activation_code,
                   asset_activated>>
    /\ UNCHANGED otherThanDataAPI

\*     if asset_status == 'active': asset_activated = True
PollCheck ==
    /\ dpc = "sleep"
    /\ IF asset_status = "active"
       THEN asset_activated' = TRUE
       ELSE UNCHANGED asset_activated
    /\ dpc' = "poll"
    /\ UNCHANGED <<remote_status, permitted, assets, analytic_asset,
                   activation_code, asset_status, polls>>
    /\ UNCHANGED otherThanDataAPI

\* The while condition is false: indent(analytic_asset)
PollExit ==
    /\ dpc = "poll"
    /\ asset_activated = TRUE
    /\ dpc' = "done"
    /\ UNCHANGED <<remote_status, permitted, assets, analytic_asset,
                   activation_code, asset_activated, asset_status, polls>>
    /\ UNCHANGED otherThanDataAPI

\* The cells of the notebook, which run one after the other.
CellsDataAPI ==
    GetAssets \/ BindAnalyticAsset \/ Activate \/ PollFetch \/ PollCheck \/ PollExit

NextDataAPI == CellsDataAPI \/ RemoteActivates

----------------------------------------------------------------------------
(* Basemaps notebook: downloading the quads of a mosaic                     *)

\* Largest number of quads of the mosaic.
MaxQuads == 4

\* Largest number of quads the quads endpoint puts in one response page.
MaxPageSize == 3

\* The id of the k-th quad of the mosaic.
QuadId(k) == 300 + k

\* name = i['id']; name = name + '.tiff'
QuadFileName(id) == <<id, ".tiff">>

\* The notebook has not been run.
IdleBasemaps ==
    /\ qpc = "mosaic"
    /\ qerror = NoError
    /\ api_url_bound = FALSE
    /\ mosaic_quads = <<>>
    /\ page_size = 1
    /\ items = <<>>
    /\ saved = {}

StartBasemaps ==
    /\ qpc = "mosaic"
    /\ qerror = NoError
    /\ api_url_bound \in BOOLEAN
    /\ \E n \in 0..MaxQuads : mosaic_quads = [k \in 1..n |-> QuadId(k)]
    /\ page_size \in 1..MaxPageSize
    /\ items = <<>>
    /\ saved = {}

QFail(cell, exc) ==
    /\ qpc' = "failed"
    /\ qerror' = Raised(cell, exc)

\* res = session.get(API_URL, params = parameters): the notebook binds URL,
\* not API_URL, so the request needs a name left in the kernel.
MosaicRequest ==
    /\ qpc = "mosaic"
    /\ IF api_url_bound
       THEN qpc' = "quads" /\ UNCHANGED qerror
       ELSE QFail("mosaic", "NameError")
    /\ UNCHANGED <<api_url_bound, mosaic_quads, page_size, items, saved>>
    /\ UNCHANGED otherThanBasemaps

\* The first page of the quads of the mosaic that intersect bbox.
FirstPage(quads, size) == SubSeq(quads, 1, Min(size, Len(quads)))

\* res = session.get(quads_url, params=search_parameters, stream=True)
\* quads = res.json(); items = quads['items']; print(... items[0] ...)
QuadsRequest ==
    /\ qpc = "quads"
    /\ items' = FirstPage(mosaic_quads, page_size)
    /\ IF items' = <<>>
       THEN QFail("quads", "IndexError")
       ELSE qpc' = "download" /\ UNCHANGED qerror
    /\ UNCHANGED <<api_url_bound, mosaic_quads, page_size, saved>>
    /\ UNCHANGED otherThanBasemaps

\* The quads the download loop has still to visit.
QuadsLeft == {k \in DOMAIN items : QuadFileName(items[k]) \notin saved}

\* for i in items: one iteration, copyfileobj(in_stream, out_file) done.
DownloadQuad ==
    /\ qpc = "download"
    /\ QuadsLeft # {}
    /\ LET k == CHOOSE k \in QuadsLeft : \A j \in QuadsLeft : k <= j
       IN  saved' = saved \cup {QuadFileName(items[k])}
    /\ UNCHANGED <<qpc, qerror, api_url_bound, mosaic_quads, page_size, items>>
    /\ UNCHANGED otherThanBasemaps

\* for i in items: one iteration, urlopen(link) raises.
DownloadQuadRaises ==
    /\ qpc = "download"
    /\ QuadsLeft # {}
    /\ QFail("download", "URLError")
    /\ UNCHANGED <<api_url_bound, mosaic_quads, page_size, items, saved>>
    /\ UNCHANGED otherThanBasemaps

\* The loop is exhausted.
DownloadQuadsDone ==
    /\ qpc = "download"
    /\ QuadsLeft = {}
    /\ qpc' = "done"
    /\ UNCHANGED <<qerror, api_url_bound, mosaic_quads, page_size, items, saved>>
    /\ UNCHANGED otherThanBasemaps

NextBasemaps ==
    MosaicRequest \/ QuadsRequest \/ DownloadQuad \/ DownloadQuadRaises
    \/ DownloadQuadsDone

----------------------------------------------------------------------------
(* Crop classification notebook: ground truth data and the AOI map          *)

\* Largest number of features in the survey shapefile.
MaxSurvey == 2

\* Largest number of draw events the user causes.
MaxDraws == 3

\* CLASS1 values of survey features: two agricultural ones and urban.
ClassSamples == {"G", "V", "U"}

\* Footprints of survey features, as sets of grid cells in the survey's
\* projected coordinates.
SurveyShapes == {{11}, {11, 12}}

\* Footprints of boxes drawn on the map, in longitude/latitude grid cells.
BoxShapes == {{1}, {1, 2}}

\* A feature as fiona yields it.
SurveyFeature(k, cls, cells) ==
    [id |-> k,
     properties |-> [CLASS1 |-> cls],
     geometry |-> [type |-> "Polygon", coordinates |-> cells]]

Surveys ==
    UNION {{[k \in 1..n |-> SurveyFeature(k, cs[k], gs[k])] :
                cs \in [1..n -> ClassSamples], gs \in [1..n -> SurveyShapes]} :
           n \in 0..MaxSurvey}

agg_classes == <<"G", "R", "F", "P", "T", "D", "C", "V">>

\* (variant: every feature counts as agricultural)
is_agricultural_any(feat) == TRUE

\* def is_agricultural(feat)
is_agricultural(feat) == feat.properties["CLASS1"] \in Range(agg_classes)

\* The function define_to_wkt_projection returns: pyproj.transform from the
\* survey's projection to epsg:4326, here on grid cells.
to_wkt_projection(cell) == cell - 10

\* def project_feature(feat, projection_fcn): feat['geometry'] is replaced.
project_feature(feat) ==
    [feat EXCEPT !.geometry =
        [type |-> feat.geometry.type,
         coordinates |-> {to_wkt_projection(c) : c \in feat.geometry.coordinates}]]

\* def load_ground_truth(filename)
load_ground_truth(data) ==
    LET kept == SelectSeq(data, is_agricultural)
    IN  [k \in DOMAIN kept |-> project_feature(kept[k])]

colors ==
    <<"#ffffd9", "#edf8b1", "#c7e9b4", "#7fcdbb", "#41b6c4", "#1d91c0",
      "#225ea8", "#0c2c84">>

\* class_colors = dict((a,c) for a,c in zip(agg_classes, colors))
class_colors ==
    [a \in Range(agg_classes) |->
        colors[CHOOSE k \in DOMAIN agg_classes : agg_classes[k] = a]]

get_color(cls) == class_colors[cls]

\* One iteration of the styling loop: f['properties']['style'] = {...} on a
\* dict that is also an element of the list named features.
StyleFeature(f) ==
    [f EXCEPT !.properties =
        DictUpdate(f.properties,
                   [style |-> [weight |-> 0,
                               fillColor |-> get_color(f.properties["CLASS1"]),
                               fillOpacity |-> 1]])]

\* json.dumps(value): the text of a value made of dicts, lists, strings and
\* numbers; it decodes to the value it was made from.
json_dumps(value) == [text_of |-> value]

\* (variant of within: the shapes share a cell)
intersects(a, b) == a.coordinates \cap b.coordinates # {}

\* shape(a).within(shape(b))
within(a, b) == a.coordinates # {} /\ a.coordinates \subseteq b.coordinates

\* The geo_json the draw control reports for a box.
BoxGeoJson(cells) ==
    [type |-> "Feature",
     geometry |-> [type |-> "Polygon", coordinates |-> cells]]

\* list.remove(x): the list without its first element equal to x.
ListRemove(l, x) ==
    LET i == CHOOSE k \in DOMAIN l : l[k] = x /\ \A j \in 1..(k - 1) : l[j] # x
    IN  SubSeq(l, 1, i - 1) \o SubSeq(l, i + 1, Len(l))

\* '{} unique classes out of {} total'.format(n, total)
LabelText(n, total) == <<n, " unique classes out of ", total, " total">>

\* The notebook has not been run.
IdleGroundTruth ==
    /\ gpc = "load"
    /\ survey_data = <<>>
    /\ loaded_features = <<>>
    /\ features = <<>>
    /\ total_unique_classes = 0
    /\ label = ""
    /\ aois = <<>>
    /\ boxes = <<>>
    /\ draw_events = <<>>
    /\ draw_error = ""
    /\ ground_truth_file = <<>>

StartGroundTruth ==
    /\ gpc = "load"
    /\ survey_data \in Surveys
    /\ loaded_features = <<>>
    /\ features = <<>>
    /\ total_unique_classes = 0
    /\ label = ""
    /\ aois = <<>>
    /\ boxes = <<>>
    /\ draw_events = <<>>
    /\ draw_error = ""
    /\ ground_truth_file = <<>>

\* features = load_ground_truth(survey_shapefile)
LoadGroundTruth ==
    /\ gpc = "load"
    /\ loaded_features' = load_ground_truth(survey_data)
    /\ features' = loaded_features'
    /\ gpc' = "style"
    /\ UNCHANGED <<survey_data, total_unique_classes, label, aois, boxes,
                   draw_events, draw_error, ground_truth_file>>
    /\ UNCHANGED otherThanGroundTruth

\* feature_collection = {..., "features": features}; the loop styles every
\* feature of feature_collection['features'], which is the list features.
StyleFeatures ==
    /\ gpc = "style"
    /\ features' = [k \in DOMAIN features |-> StyleFeature(features[k])]
    /\ gpc' = "map"
    /\ UNCHANGED <<survey_data, loaded_features, total_unique_classes, label,
                   aois, boxes, draw_events, draw_error, ground_truth_file>>
    /\ UNCHANGED otherThanGroundTruth

\* The map cell: total_unique_classes, label, aois = [], dc.on_draw(handle_draw)
\* and the map is displayed.
ShowMap ==
    /\ gpc = "map"
    /\ total_unique_classes' =
          Cardinality({features[k].properties["CLASS1"] : k \in DOMAIN features})
    /\ label' = ""
    /\ aois' = <<>>
    /\ gpc' = "imagery"
    /\ UNCHANGED <<survey_data, loaded_features, features, boxes, draw_events,
                   draw_error, ground_truth_file>>
    /\ UNCHANGED otherThanGroundTruth

\* The cells between the map and the saving search for imagery and prepare
\* it (SpecOverlaps has their detail); they touch none of this group's names
\* and either all return or one of them raises and ends the run.
ImageryCells ==
    /\ gpc = "imagery"
    /\ gpc' \in {"save", "failed"}
    /\ UNCHANGED <<survey_data, loaded_features, features, total_unique_classes,
                   label, aois, boxes, draw_events, draw_error,
                   ground_truth_file>>
    /\ UNCHANGED otherThanGroundTruth

MapShown == gpc \in {"imagery", "save", "done", "failed"}

\* The user draws a box: handle_draw(dc, 'created', geo_json).
DrawCreated(cells) ==
    /\ MapShown
    /\ Len(draw_events) < MaxDraws
    /\ LET geo_json == BoxGeoJson(cells)
           contained_features ==
               {k \in DOMAIN features :
                   within(features[k].geometry, geo_json.geometry)}
           unique_classes ==
               {features[k].properties["CLASS1"] : k \in contained_features}
       IN  /\ boxes' = Append(boxes, geo_json)
           /\ draw_events' = Append(draw_events, <<"created", geo_json>>)
           /\ label' = LabelText(Cardinality(unique_classes), total_unique_classes)
           /\ aois' = Append(aois, geo_json)
    /\ draw_error' = ""
    /\ UNCHANGED <<gpc, survey_data, loaded_features, features,
                   total_unique_classes, ground_truth_file>>
    /\ UNCHANGED otherThanGroundTruth

\* The user reshapes box k: handle_draw(dc, 'edited', geo_json) matches
\* neither branch.
DrawEdited(k, cells) ==
    /\ MapShown
    /\ Len(draw_events) < MaxDraws
    /\ k \in DOMAIN boxes
    /\ BoxGeoJson(cells) # boxes[k]
    /\ boxes' = [boxes EXCEPT ![k] = BoxGeoJson(cells)]
    /\ draw_events' = Append(draw_events, <<"edited", BoxGeoJson(cells)>>)
    /\ draw_error' = ""
    /\ UNCHANGED <<gpc, survey_data, loaded_features, features,
                   total_unique_classes, label, aois, ground_truth_file>>
    /\ UNCHANGED otherThanGroundTruth

\* The user deletes box k: handle_draw(dc, 'deleted', geo_json) with the
\* box's geo_json as it is now; aois.remove raises ValueError when no element
\* of aois equals it.
DrawDeleted(k) ==
    /\ MapShown
    /\ Len(draw_events) < MaxDraws
    /\ k \in DOMAIN boxes
    /\ boxes' = SubSeq(boxes, 1, k - 1) \o SubSeq(boxes, k + 1, Len(boxes))
    /\ draw_events' = Append(draw_events, <<"deleted", boxes[k]>>)
    /\ IF boxes[k] \in Range(aois)
       THEN aois' = ListRemove(aois, boxes[k]) /\ draw_error' = ""
       ELSE aois' = aois /\ draw_error' = "ValueError"
    /\ UNCHANGED <<gpc, survey_data, loaded_features, features,
                   total_unique_classes, label, ground_truth_file>>
    /\ UNCHANGED otherThanGroundTruth

\* def save_geojson(features, filename), called with the list features and
\* the path of ground-truth.geojson.
SaveGroundTruth ==
    /\ gpc = "save"
    /\ ground_truth_file' = json_dumps(features)
    /\ gpc' = "done"
    /\ UNCHANGED <<survey_data, loaded_features, features, total_unique_classes,
                   label, aois, boxes, draw_events, draw_error>>
    /\ UNCHANGED otherThanGroundTruth

NextGroundTruth ==
    \/ LoadGroundTruth \/ StyleFeatures \/ ShowMap \/ ImageryCells
    \/ (\E cells \in BoxShapes : DrawCreated(cells))
    \/ (\E k \in DOMAIN boxes, cells \in BoxShapes : DrawEdited(k, cells))
    \/ (\E k \in DOMAIN boxes : DrawDeleted(k))
    \/ SaveGroundTruth

----------------------------------------------------------------------------
(* Crop classification notebook: imagery that covers the AOIs              *)

\* Largest number of scenes a search returns.
MaxScenes == 2

\* The cached AOIs, as sets of grid cells.
aoi_test == {1, 2, 3, 4}
aoi_train == {5, 6, 7, 8}

\* Footprints of the scenes a search over an AOI returns: one that covers
\* the AOI and one that covers three quarters of it.
Footprints(aoi) == {aoi, aoi \ {CHOOSE c \in aoi : \A d \in aoi : c <= d}}

\* An item of a search result.
SceneItem(k, footprint) ==
    [id |-> ItemId(k),
     properties |-> [cloud_cover |-> 0],
     geometry |-> footprint,
     _links |-> [thumbnail |-> <<"thumb", ItemId(k)>>]]

SearchResults(aoi) ==
    UNION {{[k \in 1..n |-> SceneItem(k, fs[k])] : fs \in [1..n -> Footprints(aoi)]} :
           n \in 0..MaxScenes}

\* pd.DataFrame(data=rows) for a list of dicts: the columns are the dicts'
\* keys, and a frame made of the empty list has no column.
DataFrame(rows) ==
    [columns |-> UNION {DOMAIN rows[k] : k \in DOMAIN rows}, rows |-> rows]

\* The body of the first loop of determine_overlaps: props is the item's own
\* properties dict and gains the keys id, geometry and thumbnail.
SceneProps(item) ==
    DictUpdate(item.properties,
               [id |-> item.id, geometry |-> item.geometry,
                thumbnail |-> item._links.thumbnail])

\* overlap > 95 for overlap = 100.0*(aoi_shape.intersection(s).area / aoi_shape.area),
\* areas being numbers of cells.
NearFullCoverage(search_aoi, footprint) ==
    100 * Cardinality(search_aoi \cap footprint) > 95 * Cardinality(search_aoi)

\* def determine_overlaps(search_aoi, result_list): what it raises, if
\* anything, and the frame it returns.
determine_overlaps(search_aoi, result_list) ==
    LET scenes == DataFrame([k \in DOMAIN result_list |-> SceneProps(result_list[k])])
    IN  IF "geometry" \notin scenes.columns
        THEN [exc |-> "KeyError", good_scenes |-> <<>>]
        ELSE LET with_overlap ==
                     [k \in DOMAIN scenes.rows |->
                         DictUpdate(scenes.rows[k],
                             [overlap |-> NearFullCoverage(search_aoi,
                                              scenes.rows[k]["geometry"]),
                              footprint |-> scenes.rows[k]["geometry"]])]
                 near_full_coverage(row) == row["overlap"]
             IN  [exc |-> "",
                  good_scenes |->
                      [columns |-> scenes.columns \cup {"overlap", "footprint"},
                       rows |-> SelectSeq(with_overlap, near_full_coverage)]]

\* The items of a result list after determine_overlaps has run over them.
ItemsAfter(result_list) ==
    [k \in DOMAIN result_list |->
        [result_list[k] EXCEPT !.properties = SceneProps(result_list[k])]]

\* The notebook has not been run.
IdleOverlaps ==
    /\ opc = "search"
    /\ oerror = NoError
    /\ test_result_list = <<>>
    /\ train_result_list = <<>>
    /\ scenes_test = <<>>
    /\ scenes_train = <<>>
    /\ printed = <<>>

StartOverlaps == IdleOverlaps

\* The two quick searches: test_result_list = [i async for i in results] and
\* train_result_list likewise.
SearchScenes ==
    /\ opc = "search"
    /\ test_result_list' \in SearchResults(aoi_test)
    /\ train_result_list' \in SearchResults(aoi_train)
    /\ opc' = "test"
    /\ UNCHANGED <<oerror, scenes_test, scenes_train, printed>>
    /\ UNCHANGED otherThanOverlaps

\* scenes_test = determine_overlaps(aoi_test, test_result_list)
\* print(len(scenes_test))
OverlapsTest ==
    /\ opc = "test"
    /\ LET r == determine_overlaps(aoi_test, test_result_list)
       IN  IF r.exc # ""
           THEN /\ opc' = "failed"
                /\ oerror' = Raised("test", r.exc)
                /\ UNCHANGED <<scenes_test, printed>>
           ELSE /\ scenes_test' = r.good_scenes
                /\ printed' = Append(printed, Len(r.good_scenes.rows))
                /\ opc' = "train"
                /\ UNCHANGED oerror
    /\ test_result_list' = ItemsAfter(test_result_list)
    /\ UNCHANGED <<train_result_list, scenes_train>>
    /\ UNCHANGED otherThanOverlaps

\* scenes_train = determine_overlaps(aoi_train, train_result_list)
\* print(len(scenes_train))
OverlapsTrain ==
    /\ opc = "train"
    /\ LET r == determine_overlaps(aoi_train, train_result_list)
       IN  IF r.exc # ""
           THEN /\ opc' = "failed"
                /\ oerror' = Raised("train", r.exc)
                /\ UNCHANGED <<scenes_train, printed>>
           ELSE /\ scenes_train' = r.good_scenes
                /\ printed' = Append(printed, Len(r.good_scenes.rows))
                /\ opc' = "done"
                /\ UNCHANGED oerror
    /\ train_result_list' = ItemsAfter(train_result_list)
    /\ UNCHANGED <<test_result_list, scenes_test>>
    /\ UNCHANGED otherThanOverlaps

NextOverlaps == SearchScenes \/ OverlapsTest \/ OverlapsTrain

----------------------------------------------------------------------------
(* Tools and toolchains notebook: the cached tool demos                     *)

\* The demos in the order of the notebook: the order without processing,
\* then clip, bandmath, toar, composite, clip then bandmath, and
\* toar, reproject, tile.
Demos ==
    <<"reference", "clip", "bandmath", "toar", "composite", "clip_bandmath",
      "trt">>

DemoNames == Range(Demos)

\* The path the notebook assigns before it tests for the cached file
\* (for the last demo, the list tile_files, whose first entry is tested).
CachedPath(d) == <<"data", d, "cached">>

\* What the selection after a download evaluates to when the kernel has the
\* name downloaded_<demo>_files: a path of that dict.
KernelPath(d) == <<"data", d, "downloaded_files">>

\* What cl.download_order(order_id) returns: the paths of the files it wrote
\* under data/<order_id>/.
DownloadedFiles(order_id) ==
    {<<"data", order_id, "image.tif">>, <<"data", order_id, "manifest.json">>}

\* What a call of poll_and_download evaluates to, filenames being what its
\* download_order returned: the body ends without a return statement.
poll_and_download(filenames) == "None"

\* (variant: the file is never found)
isfile_never(d) == FALSE

\* os.path.isfile(<the demo's cached path>)
isfile(d) == d \in cached_files

\* (variant: the statement after an await runs whatever the awaitable did)
AwaitContinuesAlways(outcome) == TRUE

\* await f(...): the next statement runs when the awaitable returned; when
\* it raised, the exception is raised at the await.
AwaitContinues(outcome) == outcome = "returned"

\* The notebook has not been run.
IdleTools ==
    /\ tdemo = 1
    /\ tstep = "flag"
    /\ terror = NoError
    /\ cached_files = {}
    /\ names_bound = FALSE
    /\ run_flags = {}
    /\ image_path = [d \in DemoNames |-> <<>>]
    /\ download = "unbound"
    /\ tool_api = <<>>
    /\ wait_log = <<>>
    /\ download_log = <<>>
    /\ tool_sessions = {}

StartTools ==
    /\ tdemo = 1
    /\ tstep = "flag"
    /\ terror = NoError
    /\ cached_files \in SUBSET DemoNames
    /\ names_bound \in BOOLEAN
    /\ run_flags = {}
    /\ image_path = [d \in DemoNames |-> <<>>]
    /\ download = "unbound"
    /\ tool_api = <<>>
    /\ wait_log = <<>>
    /\ download_log = <<>>
    /\ tool_sessions = {}

ThisDemo == Demos[tdemo]

\* An exception nothing catches: every `async with` block it passes is left,
\* and the run ends.
ToolFail(exc) ==
    /\ tstep' = "failed"
    /\ terror' = Raised(ThisDemo, exc)
    /\ tool_sessions' = {}
    /\ UNCHANGED tdemo

\* The cell is done; the script goes on to the next demo.
NextDemo ==
    /\ tdemo' = tdemo + 1
    /\ tstep' = IF tdemo = Len(Demos) THEN "done" ELSE "flag"

\* The caching cell: img_file = '...' for the first demo; for the others
\* run_<demo> = True; <demo>_file = '...';
\* if os.path.isfile(<demo>_file): run_<demo> = False
CacheFlag ==
    /\ tstep = "flag"
    /\ image_path' = [image_path EXCEPT ![ThisDemo] = CachedPath(ThisDemo)]
    /\ run_flags' = IF ThisDemo # "reference" /\ ~isfile(ThisDemo)
                    THEN run_flags \cup {ThisDemo}
                    ELSE run_flags
    /\ tstep' = "cell"
    /\ UNCHANGED <<tdemo, terror, cached_files, names_bound, download, tool_api,
                   wait_log, download_log, tool_sessions>>
    /\ UNCHANGED otherThanTools

\* The test that guards the order: `if not os.path.isfile(img_file)` in the
\* first demo, `if run_<demo>` in the others.
RunsOrder ==
    IF ThisDemo = "reference" THEN ~isfile(ThisDemo) ELSE ThisDemo \in run_flags

\* The order cell when the test fails: only the path is shown.
OrderCellSkips ==
    /\ tstep = "cell"
    /\ ~RunsOrder
    /\ NextDemo
    /\ UNCHANGED <<terror, cached_files, names_bound, run_flags, image_path,
                   download, tool_api, wait_log, download_log, tool_sessions>>
    /\ UNCHANGED otherThanTools

\* The order cell when the test passes: async with Session() as sess and
\* cl.create_order(request) sends the demo's request.
OrderCellCreates ==
    /\ tstep = "cell"
    /\ RunsOrder
    /\ tool_sessions' = tool_sessions \cup {"cell"}
    /\ tool_api' = Append(tool_api, ThisDemo)
    /\ tstep' = "creating"
    /\ UNCHANGED <<tdemo, terror, cached_files, names_bound, run_flags,
                   image_path, download, wait_log, download_log>>
    /\ UNCHANGED otherThanTools

\* create_order raises.
CreateRaises ==
    /\ tstep = "creating"
    /\ ToolFail("ClientError")
    /\ UNCHANGED <<cached_files, names_bound, run_flags, image_path, download,
                   tool_api, wait_log, download_log>>
    /\ UNCHANGED otherThanTools

\* create_order returns in the first demo: cl.poll_and_download(order) is
\* looked up on the OrdersClient, which has no such attribute.
CreateReturnsReference ==
    /\ tstep = "creating"
    /\ ThisDemo = "reference"
    /\ ToolFail("AttributeError")
    /\ UNCHANGED <<cached_files, names_bound, run_flags, image_path, download,
                   tool_api, wait_log, download_log>>
    /\ UNCHANGED otherThanTools

\* create_order returns in the other demos and poll_and_download(order) is
\* called: it enters its own Session and awaits cl.wait(order['id'], ...).
PollAndDownloadStarts ==
    /\ tstep = "creating"
    /\ ThisDemo # "reference"
    /\ tool_sessions' = tool_sessions \cup {"poll_and_download"}
    /\ wait_log' = Append(wait_log, [id |-> OrderId(Len(tool_api)), st |-> "running"])
    /\ tstep' = "waiting"
    /\ UNCHANGED <<tdemo, terror, cached_files, names_bound, run_flags,
                   image_path, download, tool_api, download_log>>
    /\ UNCHANGED otherThanTools

\* cl.wait ends with the given outcome: poll_and_download goes on to
\* filenames = await cl.download_order(order['id']), or the exception leaves
\* poll_and_download and then the cell.
WaitEnds(outcome) ==
    /\ tstep = "waiting"
    /\ wait_log' = [wait_log EXCEPT ![Len(wait_log)].st = outcome]
    /\ IF AwaitContinues(outcome)
       THEN /\ download_log' = Append(download_log, wait_log[Len(wait_log)].id)
            /\ tstep' = "downloading"
            /\ UNCHANGED <<tdemo, terror, tool_sessions>>
       ELSE /\ ToolFail("ClientError")
            /\ UNCHANGED download_log
    /\ UNCHANGED <<cached_files, names_bound, run_flags, image_path, download,
                   tool_api>>
    /\ UNCHANGED otherThanTools

\* download_order raises.
DownloadOrderRaises ==
    /\ tstep = "downloading"
    /\ ToolFail("ClientError")
    /\ UNCHANGED <<cached_files, names_bound, run_flags, image_path, download,
                   tool_api, wait_log, download_log>>
    /\ UNCHANGED otherThanTools

\* download_order returns: poll_and_download binds filenames, leaves its
\* Session and ends without a return statement, so download is None; the
\* cell leaves its Session and selects the path from downloaded_<demo>_files,
\* a name the notebook never binds.
DownloadOrderReturns ==
    /\ tstep = "downloading"
    /\ download' =
          poll_and_download(DownloadedFiles(download_log[Len(download_log)]))
    /\ IF names_bound
       THEN /\ image_path' = [image_path EXCEPT ![ThisDemo] = KernelPath(ThisDemo)]
            /\ tool_sessions' = {}
            /\ NextDemo
            /\ UNCHANGED terror
       ELSE /\ ToolFail("NameError")
            /\ UNCHANGED image_path
    /\ UNCHANGED <<cached_files, names_bound, run_flags, tool_api, wait_log,
                   download_log>>
    /\ UNCHANGED otherThanTools

NextTools ==
    \/ CacheFlag \/ OrderCellSkips \/ OrderCellCreates
    \/ CreateRaises \/ CreateReturnsReference \/ PollAndDownloadStarts
    \/ WaitEnds("returned") \/ WaitEnds("raised")
    \/ DownloadOrderRaises \/ DownloadOrderReturns

----------------------------------------------------------------------------
(* Properties of the NDVI notebook                                          *)

NdviComputed == npc \in {"range", "save", "hist", "done"}

\* -1 <= v <= 1
InUnitRange(v) == IsFinite(v) /\ Abs(v.num) <= v.den

\* C1: every pixel whose computed NDVI is not NaN has an NDVI in [-1, 1],
\* whatever uint16 values its red and NIR bands hold.
C1_NdviInUnitRange ==
    NdviComputed =>
        \A i \in DOMAIN ndvi : ~IsNaN(ndvi[i]) => InUnitRange(ndvi[i])

\* C2: where NIR + Red # 0, the computed NDVI equals the quotient
\* (NIR - Red)/(NIR + Red) taken without wrap-around.
C2_NdviIsExactQuotient ==
    NdviComputed =>
        \A i \in DOMAIN ndvi :
            band_nir[i] + band_red[i] # 0 =>
                ndvi[i] = Quot(band_nir[i] - band_red[i], band_nir[i] + band_red[i])

\* C3: a pixel's NDVI is NaN exactly when its red and NIR values are both
\* zero, every other pixel gets a finite value, and the NaN pixels are the
\* only ones left out of the min/max computation and of the histogram input.
C3_NanOnlyWhereBothZero ==
    /\ NdviComputed =>
          \A i \in DOMAIN ndvi :
              /\ IsNaN(ndvi[i]) <=> (band_red[i] = 0 /\ band_nir[i] = 0)
              /\ ~IsNaN(ndvi[i]) => IsFinite(ndvi[i])
    /\ npc \in {"save", "hist", "done"} =>
          \A i \in DOMAIN ndvi :
              (band_red[i] = 0 /\ band_nir[i] = 0) <=> i \notin NanSkip(ndvi)
    /\ npc = "done" =>
          Len(hist_x) = Cardinality({i \in DOMAIN ndvi :
                                        ~(band_red[i] = 0 /\ band_nir[i] = 0)})

\* C19: the options output/ndvi.tif is written with have the keys of the
\* input's metadata and the input's value on each of them, except dtype,
\* which is float32, and count, which is 1; the input's metadata is as read.
C19_OutputMetaMirrorsInput ==
    npc \in {"hist", "done"} =>
        /\ src_meta \in MetaSamples
        /\ DOMAIN dst_profile = DOMAIN src_meta
        /\ \A k \in DOMAIN src_meta \ {"dtype", "count"} :
              dst_profile[k] = src_meta[k]
        /\ dst_profile["dtype"] = "float32"
        /\ dst_profile["count"] = 1

\* The output was written from an input of another dtype and band count.
C19_Witness ==
    /\ npc = "hist"
    /\ src_meta["dtype"] = "uint16" /\ src_meta["count"] = 4
    /\ src_meta["nodata"] = "0"
    /\ dst_profile # <<>>

----------------------------------------------------------------------------
(* Properties of the analysis-ready-data notebook                           *)

ARDCells ==
    <<"search", "peek", "dates", "unique", "group", "requests", "limit",
      "creating", "submit", "ids", "wait", "waiting", "download", "downloading",
      "locations", "done">>

CellNo(c) == CHOOSE k \in DOMAIN ARDCells : ARDCells[k] = c

\* The cell the script is at, or stopped in.
AtCell == IF apc = "failed" THEN error.cell ELSE apc

\* Cell c has run to its end.
Passed(c) == CellNo(AtCell) > CellNo(c)

\* The part of an 'acquired' timestamp before its first 'T'.
DatePart(s) ==
    CHOOSE p \in {SubSeq(s, 1, k) : k \in 0..Len(s)} :
        /\ "T" \notin Range(p)
        /\ Len(p) = Len(s) \/ s[Len(p) + 1] = "T"

DatesOf(scenes) == {DatePart(scenes[k].acquired) : k \in DOMAIN scenes}

IdsOn(scenes, d) == {scenes[k].id : k \in {j \in DOMAIN scenes : DatePart(scenes[j].acquired) = d}}

RECURSIVE SumLen(_, _)
SumLen(f, D) ==
    IF D = {} THEN 0
    ELSE LET d == CHOOSE d \in D : TRUE IN Len(f[d]) + SumLen(f, D \ {d})

\* C4: get_ids_by_date(items) partitions the scene ids by acquired date: its
\* keys are the distinct dates of items, every id is in the list of its own
\* date and in no other, no list is empty, and the lengths sum to len(items).
C4_IdsByDatePartition ==
    Passed("group") =>
        /\ DOMAIN ids_by_date = DatesOf(item_list)
        /\ \A d \in DOMAIN ids_by_date :
              /\ ids_by_date[d] # <<>>
              /\ \A k \in DOMAIN item_list :
                    item_list[k].id \in Range(ids_by_date[d])
                        <=> DatePart(item_list[k].acquired) = d
        /\ SumLen(ids_by_date, DOMAIN ids_by_date) = Len(item_list)

\* Two scenes of one date and a scene of another have been grouped.
C4_Witness ==
    /\ Passed("group")
    /\ Cardinality(DOMAIN ids_by_date) >= 2
    /\ \E d \in DOMAIN ids_by_date : Len(ids_by_date[d]) >= 2

\* C6: no download_order call starts before the wait calls for both orders
\* have returned; if the wait for either order raises, nothing is downloaded.
C6_DownloadOnlyAfterBothWaits ==
    /\ (dl_tasks # <<>> \/ downloaded # {}) =>
          /\ Len(wait_tasks) = 2
          /\ \A i \in DOMAIN wait_tasks : wait_tasks[i].st = "returned"
          /\ \A i \in DOMAIN dl_tasks :
                \E j \in DOMAIN wait_tasks : wait_tasks[j].id = dl_tasks[i].id
    /\ (\E i \in DOMAIN wait_tasks : wait_tasks[i].st = "raised") =>
          /\ dl_tasks = <<>>
          /\ downloaded = {}
          /\ apc \in {"waiting", "failed"}

\* A download has completed.
C6_Witness ==
    /\ apc = "downloading"
    /\ \E i \in DOMAIN dl_tasks : dl_tasks[i].st = "returned"

\* C7: for every number n >= 1 of submitted orders the wait step and the
\* download step each cover every order id of order_id_list, so that
\* get_download_locations finds a manifest for every id it iterates over.
C7_EveryOrderWaitedAndDownloaded ==
    (Passed("ids") /\ Len(order_id_list) >= 1) =>
        /\ error.exc \notin {"IndexError", "FileNotFoundError"}
        /\ Passed("wait") =>
              {wait_tasks[i].id : i \in DOMAIN wait_tasks} = Range(order_id_list)
        /\ Passed("download") =>
              {dl_tasks[i].id : i \in DOMAIN dl_tasks} = Range(order_id_list)
        /\ apc \in {"locations", "done"} => Range(order_id_list) \subseteq downloaded

\* C8: after the submission loop, list_orders holds exactly
\* min(order_limit, len(list_of_order_requests)) orders, one for each of the
\* first requests and in the same order, and no request beyond the limit has
\* been sent to the Orders API.
C8_OrdersLimited ==
    /\ \A k \in DOMAIN api_orders :
          k <= order_limit /\ api_orders[k] = list_of_order_requests[k]
    /\ Passed("submit") =>
          LET n == Min(order_limit, Len(list_of_order_requests))
          IN  /\ Len(list_orders) = n
              /\ Len(api_orders) = n
              /\ \A k \in 1..n : list_orders[k].request = list_of_order_requests[k]

\* The loop has ended with more requests than the limit admits.
C8_Witness ==
    /\ apc = "ids"
    /\ Len(list_of_order_requests) > order_limit
    /\ Len(list_orders) = order_limit

\* C9: list_of_order_requests holds exactly one request per distinct acquired
\* date of item_list, each built from exactly the scene ids acquired on that
\* date, and ids_by_date[date] succeeds for every date.
C9_OneRequestPerDate ==
    /\ error.exc # "KeyError"
    /\ Passed("requests") =>
          /\ Len(list_of_order_requests) = Cardinality(DatesOf(item_list))
          /\ \A d \in DatesOf(item_list) :
                Cardinality({k \in DOMAIN list_of_order_requests :
                    /\ Range(list_of_order_requests[k].item_ids) = IdsOn(item_list, d)
                    /\ Len(list_of_order_requests[k].item_ids)
                           = Cardinality(IdsOn(item_list, d))}) = 1

\* Requests have been built for two dates, one of them with two scenes.
C9_Witness ==
    /\ Passed("requests")
    /\ Len(list_of_order_requests) = 2
    /\ \E k \in DOMAIN list_of_order_requests :
          Len(list_of_order_requests[k].item_ids) = 2

\* C13: a create_order that raises for the k-th request ends the run in the
\* submission loop: list_orders holds exactly the k-1 orders created before
\* it, the Orders API has been sent the first k requests and no later one,
\* and nothing after the loop (order ids, waits, downloads) has happened.
C13_SubmitFailureStops ==
    error.cell = "submit" =>
        LET k == Len(api_orders)
        IN  /\ apc = "failed"
            /\ error.exc = "ClientError"
            /\ k >= 1
            /\ Len(list_orders) = k - 1
            /\ api_orders = SubSeq(list_of_order_requests, 1, k)
            /\ \A j \in 1..(k - 1) :
                  list_orders[j].request = list_of_order_requests[j]
            /\ order_id_list = <<>>
            /\ wait_tasks = <<>> /\ dl_tasks = <<>>
            /\ downloaded = {} /\ locations = <<>>
            /\ open_sessions = 0

\* The second request failed while a third was still queued.
C13_Witness ==
    /\ error.cell = "submit"
    /\ Len(list_orders) = 1
    /\ Len(SubmitQueue) >= 3

\* Remote operations in flight: a create_order awaiting its answer, and the
\* awaitables of the two gathers that have neither returned nor raised.
InFlight ==
    (IF apc = "creating" THEN 1 ELSE 0)
    + Cardinality({i \in DOMAIN wait_tasks : wait_tasks[i].st = "running"})
    + Cardinality({i \in DOMAIN dl_tasks : dl_tasks[i].st = "running"})

\* C14: orders are created one at a time, the session of one create_order
\* being closed before the next starts and no wait or download running
\* beside it, and at no time are more than two remote operations in flight.
C14_BoundedConcurrency ==
    /\ InFlight <= 2
    /\ open_sessions \in {0, 1}
    /\ apc = "submit" => open_sessions = 0
    /\ apc = "creating" =>
          /\ InFlight = 1
          /\ open_sessions = 1
          /\ Len(api_orders) = Len(list_orders) + 1

\* Both waits of the gather are in flight with three orders placed.
C14_Witness ==
    /\ apc = "waiting"
    /\ InFlight = 2
    /\ Len(list_orders) = 3

----------------------------------------------------------------------------
(* Properties of the Data API notebook                                      *)

\* C5: if the remote analytic asset's status becomes 'active', the polling
\* loop terminates (asset_activated becomes True), whatever the status was
\* when the assets were first fetched.
C5_PollingTerminates == (remote_status = "active") ~> (asset_activated = TRUE)

\* C21: in every iteration of the polling loop the status printed and compared
\* with 'active' is the analytic asset's status in the response fetched in
\* that iteration.
C21_StatusFromThisIteration ==
    dpc = "sleep" => asset_status = assets["analytic"]["status"]

----------------------------------------------------------------------------
(* Properties of the basemaps notebook                                      *)

\* C10: when the download loop finishes without error, every quad of the
\* mosaic that intersects its bounding box has been saved as '<id>.tiff',
\* however many quads there are and however they are split across pages.
C10_AllQuadsSaved ==
    qpc = "done" => saved = {QuadFileName(q) : q \in Range(mosaic_quads)}

----------------------------------------------------------------------------
(* Properties of the crop classification notebook                           *)

\* The eight agricultural classes.
AgriculturalClasses == {"G", "R", "F", "P", "T", "D", "C", "V"}

\* C11: load_ground_truth returns the survey's features whose CLASS1 is one
\* of the eight agricultural classes, each once, in the order of the source,
\* with their properties as in the source, and no other feature.
C11_LoadKeepsAgricultural ==
    gpc # "load" =>
        LET ag == {k \in DOMAIN survey_data :
                      survey_data[k].properties["CLASS1"] \in AgriculturalClasses}
            id_of == [k \in DOMAIN loaded_features |-> loaded_features[k].id]
        IN  /\ Len(loaded_features) = Cardinality(ag)
            /\ Range(id_of) = {survey_data[k].id : k \in ag}
            /\ \A i, j \in DOMAIN id_of : i < j => id_of[i] < id_of[j]
            /\ \A k \in DOMAIN loaded_features :
                  loaded_features[k].properties
                      = survey_data[id_of[k]].properties

\* A non-agricultural feature precedes an agricultural one in the source.
C11_Witness ==
    /\ gpc # "load"
    /\ Len(survey_data) = 2
    /\ survey_data[1].properties["CLASS1"] = "U"
    /\ Len(loaded_features) = 1

\* C12: the list named features is the list load_ground_truth returned in
\* every cell after loading, and ground-truth.geojson holds that list.
C12_SavedIsLoaded ==
    /\ gpc # "load" => features = loaded_features
    /\ gpc = "done" => ground_truth_file = json_dumps(loaded_features)

\* The latest 'created' call of handle_draw.
LastCreated ==
    LET created == {i \in DOMAIN draw_events : draw_events[i][1] = "created"}
    IN  draw_events[CHOOSE i \in created : \A j \in created : j <= i]

\* C17: once a box has been drawn, the label shows the number of distinct
\* CLASS1 values of the loaded features lying wholly inside the latest drawn
\* box, then the number of distinct CLASS1 values of all loaded features, and
\* the first number is at most the second.
C17_LabelCounts ==
    (\E i \in DOMAIN draw_events : draw_events[i][1] = "created") =>
        LET box == LastCreated[2].geometry.coordinates
            inside == {k \in DOMAIN loaded_features :
                          LET cells == loaded_features[k].geometry.coordinates
                          IN  cells # {} /\ \A c \in cells : c \in box}
            class_of(k) == loaded_features[k].properties["CLASS1"]
            n == Cardinality({class_of(k) : k \in inside})
            total == Cardinality({class_of(k) : k \in DOMAIN loaded_features})
        IN  /\ label = <<n, " unique classes out of ", total, " total">>
            /\ n <= total

\* The box holds one of the two classes; the other class's feature reaches
\* outside the box.
C17_Witness ==
    /\ Len(draw_events) >= 1
    /\ label # ""
    /\ label[1] = 1 /\ label[3] = 2
    /\ draw_events[Len(draw_events)][1] = "created"

\* The geo_json of the 'created' calls that no later 'deleted' call reported,
\* oldest first, from call i on.
RECURSIVE LiveCreatedFrom(_)
LiveCreatedFrom(i) ==
    IF i > Len(draw_events) THEN <<>>
    ELSE LET live == /\ draw_events[i][1] = "created"
                     /\ ~\E j \in (i + 1)..Len(draw_events) :
                            draw_events[j] = <<"deleted", draw_events[i][2]>>
         IN  (IF live THEN <<draw_events[i][2]>> ELSE <<>>)
             \o LiveCreatedFrom(i + 1)

\* C18: after any sequence of draw events, aois holds, in creation order,
\* exactly the box geometries reported 'created' and not since reported
\* 'deleted'.
C18_AoisAreLiveBoxes ==
    MapShown => aois = LiveCreatedFrom(1)

\* A scene qualifies when its footprint covers more than 95 percent of the
\* AOI's area.
Qualifies(aoi, item) ==
    Cardinality(item.geometry \cap aoi) * 100 > Cardinality(aoi) * 95

\* C20: when no scene of a result list qualifies, the empty list included,
\* determine_overlaps returns an empty collection: no error is raised and
\* the number printed for that list is zero.
C20_NoSceneGivesZero ==
    /\ (opc # "search" /\ opc # "test"
        /\ \A k \in DOMAIN test_result_list :
              ~Qualifies(aoi_test, test_result_list[k])) =>
          /\ oerror.cell # "test"
          /\ Len(printed) >= 1 /\ printed[1] = 0
    /\ (opc \in {"done", "failed"} /\ oerror.cell # "test"
        /\ \A k \in DOMAIN train_result_list :
              ~Qualifies(aoi_train, train_result_list[k])) =>
          /\ oerror.cell # "train"
          /\ Len(printed) = 2 /\ printed[2] = 0

----------------------------------------------------------------------------
(* Properties of the tools and toolchains notebook                          *)

DemoNo(d) == CHOOSE k \in DOMAIN Demos : Demos[k] = d

\* The order cell of demo d has evaluated its test.
OrderCellRan(d) ==
    \/ DemoNo(d) < tdemo
    \/ DemoNo(d) = tdemo /\ tstep \notin {"flag", "cell"}

\* C15: for each demo whose order cell has run, a request was sent to the
\* Orders API exactly when the demo's cached file was not on disk; with the
\* file on disk nothing was sent and the path variable is the cached path.
C15_OrderIffNotCached ==
    /\ \A d \in DemoNames :
          OrderCellRan(d) =>
              /\ (\E k \in DOMAIN tool_api : tool_api[k] = d)
                    <=> d \notin cached_files
              /\ Cardinality({k \in DOMAIN tool_api : tool_api[k] = d}) <= 1
              /\ d \in cached_files => image_path[d] = CachedPath(d)
    /\ \A j \in DOMAIN wait_log :
          \E k \in DOMAIN tool_api :
              wait_log[j].id = OrderId(k) /\ tool_api[k] \notin cached_files
    /\ \A i \in DOMAIN download_log :
          \E k \in DOMAIN tool_api :
              download_log[i] = OrderId(k) /\ tool_api[k] \notin cached_files
    /\ cached_files = DemoNames =>
          /\ tool_api = <<>> /\ wait_log = <<>> /\ download_log = <<>>
          /\ tool_sessions = {}

\* A cached demo was skipped and a later demo without cache placed an order.
C15_Witness ==
    /\ "reference" \in cached_files /\ "clip" \in cached_files
    /\ "bandmath" \notin cached_files
    /\ tdemo = 4
    /\ tool_api = <<"bandmath">>
    /\ image_path["clip"] = CachedPath("clip")

\* C16: download_order has been called only for order ids whose wait has
\* returned; an order whose wait raised is never downloaded, its exception
\* has ended the run, and outside poll_and_download its Session is closed.
C16_DownloadOnlyAfterWait ==
    /\ \A i \in DOMAIN download_log :
          \E j \in DOMAIN wait_log :
              wait_log[j].id = download_log[i] /\ wait_log[j].st = "returned"
    /\ \A j \in DOMAIN wait_log :
          wait_log[j].st = "raised" =>
              /\ \A i \in DOMAIN download_log : download_log[i] # wait_log[j].id
              /\ tstep = "failed" /\ terror.exc = "ClientError"
    /\ tstep \notin {"waiting", "downloading"} =>
          "poll_and_download" \notin tool_sessions
    /\ tstep \in {"waiting", "downloading"} =>
          "poll_and_download" \in tool_sessions

\* C22: once poll_and_download has returned in an uncached demo, download
\* is not None but the collection of files download_order produced for the
\* demo's order, and the demo's image path is one of those files.
C22_DownloadIsDownloadedFiles ==
    /\ download # "unbound" =>
          /\ download # "None"
          /\ download = DownloadedFiles(download_log[Len(download_log)])
    /\ \A d \in DemoNames :
          (DemoNo(d) < tdemo /\ d \notin cached_files) =>
              \E i \in DOMAIN download_log :
                  image_path[d] \in DownloadedFiles(download_log[i])

\* A second order's wait raised after the first order was downloaded.
C16_Witness ==
    /\ Len(wait_log) = 2
    /\ wait_log[1].st = "returned" /\ wait_log[2].st = "raised"
    /\ Len(download_log) = 1
    /\ tstep = "failed"

----------------------------------------------------------------------------
(* Specifications                                                           *)

InitNDVI == IdleTools /\ IdleOverlaps /\ StartNDVI /\ StartARD /\ IdleDataAPI /\ IdleBasemaps
    /\ IdleGroundTruth

SpecNDVI == InitNDVI /\ [][NextNDVI]_vars

InitARD == IdleTools /\ IdleOverlaps /\ StartNDVI /\ StartARD /\ IdleDataAPI /\ IdleBasemaps
    /\ IdleGroundTruth

SpecARD == InitARD /\ [][NextARD]_vars

InitDataAPI == IdleTools /\ IdleOverlaps /\ StartNDVI /\ StartARD /\ StartDataAPI /\ IdleBasemaps
    /\ IdleGroundTruth

\* The script runs its cells one after the other and time.sleep returns, so
\* an enabled cell is eventually run; nothing obliges the Data API to finish
\* an activation.
SpecDataAPI == InitDataAPI /\ [][NextDataAPI]_vars /\ WF_vars(CellsDataAPI)

InitBasemaps == IdleTools /\ IdleOverlaps /\ StartNDVI /\ StartARD /\ IdleDataAPI /\ StartBasemaps
    /\ IdleGroundTruth

SpecBasemaps == InitBasemaps /\ [][NextBasemaps]_vars

InitGroundTruth ==
    /\ StartNDVI /\ StartARD /\ IdleDataAPI /\ IdleBasemaps
    /\ StartGroundTruth /\ IdleOverlaps /\ IdleTools

SpecGroundTruth == InitGroundTruth /\ [][NextGroundTruth]_vars

InitOverlaps ==
    /\ StartNDVI /\ StartARD /\ IdleDataAPI /\ IdleBasemaps
    /\ IdleGroundTruth /\ StartOverlaps /\ IdleTools

SpecOverlaps == InitOverlaps /\ [][NextOverlaps]_vars

InitTools ==
    /\ StartNDVI /\ StartARD /\ IdleDataAPI /\ IdleBasemaps
    /\ IdleGroundTruth /\ IdleOverlaps /\ StartTools

SpecTools == InitTools /\ [][NextTools]_vars

=============================================================================
